---- MODULE Spec2Model ----
(***************************************************************************)
(* The coordination layer of UiGridComponent (ui-grid.component.ts): the   *)
(* inputs, the lifecycle hooks, the selection handlers and the reactive    *)
(* pipelines wired by the constructor.  The managers the component imports *)
(* from ./managers are modelled at their interface.                        *)
(***************************************************************************)
EXTENDS Integers, Sequences, FiniteSets, TLC

\* ------------------------------------------------------------------ bounds
\* Row identities are 1..MaxId; a snapshot holds at most MaxId rows.
MaxId == 3
\* Declared columns are 1..MaxCols.
MaxCols == 2
MaxButtons == 1
MaxSubscribers == 2

RowIds == 1..MaxId
ColIds == 1..MaxCols

\* Sequences over S without repetition, of length at most n.
DistinctSeqs(S, n) ==
    {s \in UNION {[1..k -> S] : k \in 0..n} :
        \A i, j \in 1..Len(s) : i # j => s[i] # s[j]}

\* The snapshots assigned to `data`: rows with unique ids.  The component
\* compares row ids for equality only, so the rows of one snapshot are listed
\* in increasing id order.
Snapshots ==
    {s \in DistinctSeqs(RowIds, MaxId) :
        \A i, j \in 1..Len(s) : i < j => s[i] < s[j]}

\* The snapshots that are a first page 1..n.
PrefixSnapshots == {s \in Snapshots : \A k \in 1..Len(s) : s[k] = k}

ColumnLists == DistinctSeqs(ColIds, MaxCols)

Min(a, b) == IF a < b THEN a ELSE b
Max(a, b) == IF a > b THEN a ELSE b

\* ---------------------------------------------------------------- state
VARIABLES
    contentInit,       \* ngAfterContentInit has run (columns are known)
    destroyed,         \* ngOnDestroy has run to its end (_destroyed$ has emitted)
    inputsBound,       \* the first ngOnChanges has been delivered
    stableTaken,       \* the take(1) subscription to zone.onStable has fired
    data,              \* dataManager.data$ value: the snapshot, a sequence of row ids
    pristine,          \* dataManager.pristine
    selected,          \* selectionManager: the set of selected row ids
    multiPageSelect,   \* @Input multiPageSelect
    selectable,        \* @Input selectable
    lastCheckboxIdx,   \* _lastCheckboxIdx (0-based)
    isShiftPressed,    \* _isShiftPressed
    completed,         \* the subjects / emitters on which complete() was called
    mgrDestroyed,      \* the managers on which destroy() was called
    columns,           \* the declared column list (the ContentChildren query)
    mgrColumns,        \* filterManager / sortManager / visibilityManager .columns
    columnsValue,      \* columns$ current value
    isAnyFilterDefined,\* isAnyFilterDefined$ current value
    changeObserved,    \* the columns whose change$ _columnChanges$ is subscribed to
    debouncePending,   \* debounceTime(10) of _columnChanges$ holds a notification
    debounceLeft,      \* the ms left until it lets the notification through (0: none held)
    filterVisible,     \* per column: its filter dropdown's visible$ value
    collapseThreshold, \* _collapseFiltersCount$ value
    filtersSubscribed, \* areFilersCollapsed$ has the template's subscriber
    changesWatched,    \* visibleFilterCount$ is subscribed to columns.changes
    watched,           \* the columns whose visible$ the inner combineLatest observes
    visibleCount,      \* last value of visibleFilterCount$ (<<>> before the first, else <<n>>)
    collapsed,         \* last value of areFilersCollapsed$ (<<>> before the first, else <<b>>)
    renderedCount,     \* emissions of the rendered output so far (2 stands for "more than one")
    resizeStrategy,    \* _resizeStrategy; resizeManager is the manager built for it
    isResizing,        \* resizeManager.isResizing: a resize session is active
    primary,           \* per column: its primary flag
    visibleColumns,    \* last value of visible$ (visibilityManager.columns$)
    renderedColumns,   \* last value of renderedColumns$: records [directive, role]
    snackbar,          \* the snackbar on display: [open, elapsed, duration] in ms
    hookInput,         \* @Input disableSelectionByEntry: the rows it gives a reason for
    mgrHook,           \* selectionManager.disableSelectionByEntry: the rows it gives a reason for
    mgrEnforcesHook,   \* the selection manager refuses to select the rows of its hook
    headerButtons,     \* header?.actionButtons?.length (0 without a header)
    hasSelSubscribers, \* the subscribers hasSelection$ has
    last               \* the last operation and what it made observable

vars == <<contentInit, destroyed, inputsBound, stableTaken, data, pristine,
          selected, multiPageSelect, selectable, lastCheckboxIdx,
          isShiftPressed, completed, mgrDestroyed, columns, mgrColumns,
          columnsValue, isAnyFilterDefined, changeObserved, debouncePending,
          debounceLeft, isResizing,
          filterVisible, collapseThreshold, filtersSubscribed, changesWatched,
          watched, visibleCount, collapsed, renderedCount, resizeStrategy,
          primary, visibleColumns, renderedColumns, snackbar, hookInput,
          mgrHook, mgrEnforcesHook, headerButtons, hasSelSubscribers, last>>

lifeVars == <<contentInit, destroyed, inputsBound, stableTaken, completed,
              mgrDestroyed, renderedCount>>
dataVars == <<data, pristine>>
selVars == <<selected, lastCheckboxIdx, isShiftPressed>>
inputVars == <<multiPageSelect, selectable>>
colVars == <<columns, mgrColumns, columnsValue, isAnyFilterDefined>>
changeVars == <<changeObserved, debouncePending, debounceLeft>>
resizeVars == <<resizeStrategy, isResizing>>
filterVars == <<filterVisible, collapseThreshold, filtersSubscribed,
                changesWatched, watched, visibleCount, collapsed>>
roleVars == <<primary, visibleColumns, renderedColumns>>
hookVars == <<hookInput, mgrHook, mgrEnforcesHook>>
headerVars == <<headerButtons, hasSelSubscribers>>
sideVars == <<roleVars, snackbar, hookVars, headerVars>>

\* ------------------------------------------------- managers (interface)
\* DataManager: the snapshot is replaced wholesale; indices are 0-based.
DmUpdate(rows) == rows
DmLength(d) == Len(d)
DmGet(d, i) == d[i + 1]
DmIndexOf(d, row) ==
    IF \E k \in 1..Len(d) : d[k] = row
    THEN (CHOOSE k \in 1..Len(d) : d[k] = row) - 1
    ELSE -1
DmRows(d) == {d[k] : k \in 1..Len(d)}

\* SelectionManager: membership by row identity.
SmIsSelected(sel, row) == row \in sel
\* The rows select() passes over: those the manager's own
\* disableSelectionByEntry gives a reason for, when the manager enforces it.
SmDisabled(row) == mgrEnforcesHook /\ row \in mgrHook
SmSelect(sel, rows) == sel \cup {row \in rows : ~SmDisabled(row)}
SmDeselect(sel, rows) == sel \ rows
SmToggle(sel, row) == IF row \in sel THEN sel \ {row} ELSE sel \cup {row}
SmClear(sel) == {}

\* A manager's notification stream stops with the manager's destroy().
ManagerEmits(m) == m \notin mgrDestroyed

\* SelectionManager.hasValue$: what it emits when the selection goes from
\* before to after, true on empty -> non-empty and false on the reverse.
HasValueEmission(before, after) ==
    IF ManagerEmits("selection") /\ ((before = {}) # (after = {}))
    THEN <<after # {}>> ELSE <<>>

\* The managers the component owns, in the order ngOnDestroy destroys them.
OwnedManagers == <<"data", "resize", "sort", "selection", "filter", "visibility">>

\* --------------------------------------------------------- coordinator
\* A column declares a filter when it has a dropdown or a searchable dropdown.
HasFilter(c) == c % 2 = 1

\* A merged subscription that is never released.
MergedAliveForever == TRUE

\* takeUntil(this._destroyed$) on the merged subscription of the constructor.
MergedAlive == "_destroyed$" \notin completed

\* EventEmitter / Subject: next() after complete() delivers nothing.
Emit(name) == IF name \in completed THEN {} ELSE {name}

\* ngOnDestroy: the emitters it completes first ...
EmittersCompleted == {"sortChange", "rendered", "columns$", "isAnyFilterDefined$"}

\* ... and the internal subjects it releases last.
SubjectsCompleted == {"_destroyed$", "_configure$"}

\* A teardown that calls destroy() on the announcer without the null check.
AnnouncerUnguarded(exists) == TRUE

\* ngOnDestroy: if (this.liveAnnouncerManager) { ... destroy() }.
AnnouncerGuard(exists) == exists

\* A tap that would forward user events only.
SortTapUserOnly(userEvent) == userEvent

\* sort$: tap(ev => this.sortChange.emit(ev)) forwards every event it receives.
SortTapEmits(userEvent) == TRUE

\* The public output emitters of the component.
PublicOutputs == {"sortChange", "refresh", "rendered"}

\* A selectable branch without the previousValue !== currentValue test.
SelectableAnyChange(present, first, prev, cur) == present /\ ~first

\* ngOnChanges: the selectable branch.
SelectableTransition(present, first, prev, cur) ==
    present /\ ~first /\ prev # cur

\* A data branch without the multiPageSelect test.
ClearsOnAnyDataChange(present, first, mps) == present /\ ~first

\* ngOnChanges: the data branch.
ClearsOnDataChange(present, first, mps) ==
    present /\ ~first /\ ~mps

\* An announcer fed with every sort event.
AnnouncerNoFilter(userEvent) == TRUE

\* ngAfterContentInit: the filter put in front of the live announcer's sort stream.
AnnouncerSortFilter(userEvent) == userEvent

\* handleSelection, shift branch: range(min, max + 1).map(dataManager.get).
RangeIndices(anchor, idx) == Min(anchor, idx)..Max(idx, anchor)

\* range(min, max): the upper end left out.
RowsForSelectionExclusive(d, anchor, idx) ==
    {DmGet(d, k) : k \in Min(anchor, idx)..(Max(idx, anchor) - 1)}

RowsForSelection(d, anchor, idx) ==
    {DmGet(d, k) : k \in RangeIndices(anchor, idx)}

RowsForDeselection(d, anchor, idx) ==
    {row \in DmRows(d) : row \notin RowsForSelection(d, anchor, idx)}

\* handleSelection, shift branch: the selection after the optional deselect
\* of the clicked entry (the state the first detectChanges renders).
ShiftIntermediate(sel, entry) ==
    IF SmIsSelected(sel, entry) THEN SmDeselect(sel, {entry}) ELSE sel

\* The rows to select filtered before the clicked entry is deselected.
ShiftSelectionStale(sel, d, anchor, idx) ==
    LET s1 == ShiftIntermediate(sel, DmGet(d, idx))
        s2 == SmSelect(s1, {row \in RowsForSelection(d, anchor, idx) :
                                ~SmIsSelected(sel, row)})
    IN  SmDeselect(s2, {row \in RowsForDeselection(d, anchor, idx) :
                            SmIsSelected(s2, row)})

\* handleSelection, shift branch: the final selection.
ShiftSelection(sel, d, anchor, idx) ==
    LET s1 == ShiftIntermediate(sel, DmGet(d, idx))
        s2 == SmSelect(s1, {row \in RowsForSelection(d, anchor, idx) :
                                ~SmIsSelected(s1, row)})
    IN  SmDeselect(s2, {row \in RowsForDeselection(d, anchor, idx) :
                            SmIsSelected(s2, row)})

\* A shift branch without the re-render between deselect and select.
ShiftMidRenderNever(sel, entry) == FALSE

\* handleSelection, shift branch: detectChanges() runs between the deselect
\* of the clicked entry and the re-application of the range exactly when
\* the clicked entry was selected.
ShiftMidRender(sel, entry) == SmIsSelected(sel, entry)

\* A handler that never records the clicked index.
ClickAnchorKept(isShift, anchor, idx) == anchor

\* A handler that records the clicked index on a shift-click too.
ClickAnchorMoved(isShift, anchor, idx) == idx

\* handleSelection: _lastCheckboxIdx = idx in the plain branch only.
ClickAnchor(isShift, anchor, idx) == IF isShift THEN anchor ELSE idx

\* A deselect-all that clears the whole selection.
ToggleSelectionClears(sel, d, checked) ==
    IF checked THEN SmSelect(sel, DmRows(d)) ELSE SmClear(sel)

\* toggle(ev): select-all / deselect-all over the current snapshot.
ToggleSelection(sel, d, checked) ==
    IF checked THEN SmSelect(sel, DmRows(d)) ELSE SmDeselect(sel, DmRows(d))

\* areFilersCollapsed$: map(([visible, minCollapse]) => visible > minCollapse).
\* A threshold is a finite count or Number.POSITIVE_INFINITY.
Finite(n) == [inf |-> FALSE, n |-> n]
PositiveInfinity == [inf |-> TRUE, n |-> 0]
Thresholds == {PositiveInfinity} \cup {Finite(n) : n \in 0..MaxCols}
GreaterThan(visible, minCollapse) == ~minCollapse.inf /\ visible > minCollapse.n
AreFiltersCollapsed(visible, minCollapse) == GreaterThan(visible, minCollapse)

\* collapsibleFilters setter: collapse ? 0 : Number.POSITIVE_INFINITY.
CollapsibleToThreshold(collapse) ==
    IF collapse THEN Finite(0) ELSE PositiveInfinity

\* visibleFilterCount$: areVisible.filter(visible => visible).length over the
\* observed columns; a column without a filter contributes of(false).
VisibleFilterCount(cols, vis) ==
    Cardinality({k \in 1..Len(cols) : HasFilter(cols[k]) /\ vis[cols[k]]})

\* every in place of some.
AnyFilterDefinedAll(cols) == \A k \in 1..Len(cols) : HasFilter(cols[k])

\* isAnyFilterDefined$: columns.some(c => !!c.dropdown || !!c.searchableDropdown).
AnyFilterDefined(cols) == \E k \in 1..Len(cols) : HasFilter(cols[k])

\* The resize strategies ResizeManagerFactory resolves; the field initialiser
\* of _resizeStrategy is ResizeStrategy.ImmediateNeighbourHalt.
DefaultResizeStrategy == "ImmediateNeighbourHalt"
ResizeStrategies == {DefaultResizeStrategy, "AggresiveNeighbourPush"}

\* hasSelection$: the condition of its tap.
AnnouncesHeaderActions(hasSelection, buttons) == hasSelection /\ buttons > 0

\* A tap downstream of no share(): it runs once for every subscriber.
UnsharedTapRuns(subscribers) == subscribers

\* hasSelection$: tap(...), share().  One subscription to hasValue$ serves
\* every subscriber, so the tap runs once for an emission, and not at all
\* while nothing subscribes.
SharedTapRuns(subscribers) == IF subscribers > 0 THEN 1 ELSE 0

\* The times _announceGridHeaderActions enqueues the notice for the hasValue$
\* emissions of one operation.
HeaderNotices(emissions, buttons, subscribers) ==
    Cardinality({k \in 1..Len(emissions) :
                    AnnouncesHeaderActions(emissions[k], buttons)})
        * SharedTapRuns(subscribers)

\* A value ResizeManagerFactory has no manager for, and the values a binding
\* can assign.
UnresolvedStrategy == "Unresolved"
AssignableStrategies == ResizeStrategies \cup {UnresolvedStrategy}

\* ResizeManagerFactory(strategy, grid) builds a manager for the strategies it
\* resolves and fails (throws) for any other value.
FactoryResolves(value) == value \in ResizeStrategies

\* A setter that rebuilds the manager on every assignment.
ResizeAlwaysReplaced(value, current) == FALSE

\* set resizeStrategy: if (value === this._resizeStrategy) { return; }
ResizeUnchanged(value, current) == value = current

\* set resizeStrategy: the calls it makes on resize managers, in order.
ResizeStrategySteps(value, current, hasManager) ==
    IF ResizeUnchanged(value, current) THEN <<>>
    ELSE (IF hasManager THEN <<"destroy">> ELSE <<>>) \o <<"construct">>

\* A subscription to zone.onStable without take(1).
StableEverySignal(subscribed, taken) == subscribed

\* ngAfterContentInit: this._zone.onStable.pipe(take(1)).subscribe(...).
StableHandlerRuns(subscribed, taken) == subscribed /\ ~taken

\* _columnChanges$: debounceTime(10), in ms.
DebounceTime == 10

\* A window that a later notification does not restart.
DebounceWindowKept(pending, left) == IF pending THEN left ELSE DebounceTime

\* debounceTime: every notification drops the one held and starts a new
\* window of DebounceTime ms.
DebounceWindow(pending, left) == DebounceTime

\* A tap that never stops the session.
StopsNever(resizing) == FALSE

\* _columnChanges$: tap(() => this.isResizing && this.resizeManager.stop()).
StopsResizing(resizing) == resizing

\* A teardown that releases the merged subscription first.
TeardownReleasesFirst(announcerExists) ==
    <<"_destroyed$">> \o OwnedManagers
        \o (IF announcerExists THEN <<"liveAnnouncer">> ELSE <<>>)
        \o <<"performanceMonitor">>

\* ngOnDestroy: the destroy() calls and the release of the merged
\* subscription (_destroyed$.next()), in order.
TeardownSteps(announcerExists) ==
    OwnedManagers
        \o (IF AnnouncerGuard(announcerExists) THEN <<"liveAnnouncer">> ELSE <<>>)
        \o <<"performanceMonitor", "_destroyed$">>

\* A setter that skips an empty list.
SetDataUnlessEmpty(current, value) ==
    IF value = <<>> THEN current ELSE DmUpdate(value)

\* set data(value): this.dataManager.update(value).
SetData(current, value) == DmUpdate(value)

\* A row header that is always the first visible column.
RowHeaderFirst(cols, prim) == 0

\* renderedColumns$: firstIndex = columns.findIndex(c => c.primary);
\* rowHeaderIndex = firstIndex > -1 ? firstIndex : 0 (0-based).
RowHeaderIndex(cols, prim) ==
    LET isFirstPrimary(k) ==
            prim[cols[k]] /\ \A j \in 1..(k - 1) : ~prim[cols[j]]
        firstIndex ==
            IF \E k \in 1..Len(cols) : prim[cols[k]]
            THEN (CHOOSE k \in 1..Len(cols) : isFirstPrimary(k)) - 1
            ELSE -1
    IN  IF firstIndex > -1 THEN firstIndex ELSE 0

\* renderedColumns$: columns.map((directive, index) => ({ directive, role })).
RenderedColumns(cols, prim) ==
    [k \in 1..Len(cols) |->
        [directive |-> cols[k],
         role |-> IF k - 1 = RowHeaderIndex(cols, prim)
                  THEN "rowheader" ELSE "gridcell"]]

\* The snackbar service: durations in ms.  DefaultDuration is the duration of
\* MAT_SNACK_BAR_DEFAULT_OPTIONS; the other two are the ones the callers pass.
DefaultDuration == 2500
ShortDuration == 1000
LongDuration == 5000
SnackbarDurations == {ShortDuration, LongDuration}

\* The amounts of time that pass in one step.
TickSteps == {1, ShortDuration - 1, DefaultDuration - 1, LongDuration - 1}

\* No snackbar on display and none shown so far.  duration is that of the
\* snackbar shown last, previous that of the one shown before it.
NoSnackbar == [open |-> FALSE, elapsed |-> 0, duration |-> 0, previous |-> 0]

\* The duration a snackbar runs with: the one requested, else the default.
SnackbarDuration(requested) ==
    IF requested = <<>> THEN DefaultDuration ELSE requested[1]

\* A timer that fires one tick late.
SnackbarDueLate(elapsed, duration) == elapsed > duration

\* The dismiss timer of a snackbar fires when its duration has elapsed.
SnackbarDue(elapsed, duration) == elapsed >= duration

\* ------------------------------------------------- the last operation
\* What the last operation was and what it made observable: the handlers of
\* the coordinator that ran, the streams that emitted, the announcements.
NoOp ==
    [op |-> "constructor", idx |-> -1, anchor |-> 0, userEvent |-> FALSE,
     first |-> FALSE, dataCh |-> FALSE, selCh |-> "none",
     wasSelected |-> FALSE, anchorToggledOff |-> FALSE,
     afterToggleOff |-> FALSE, hadSelection |-> FALSE, repeat |-> FALSE,
     failed |-> FALSE, handlers |-> {}, emitted |-> {},
     sortAnnounced |-> 0, reconfigs |-> 0, marks |-> 0,
     resizeSteps |-> <<>>, strategy |-> "", rows |-> <<>>,
     afterShift |-> FALSE, anchorWasSelected |-> FALSE, midRender |-> FALSE,
     midEntrySelected |-> FALSE, midAnchorSelected |-> FALSE,
     observed |-> FALSE, burst |-> 0, wasResizing |-> FALSE, calls |-> <<>>,
     hasValue |-> <<>>, notices |-> 0]

\* ------------------------------------------------------------ Init
\* The columns the host template declares.
DeclaredColumns == [k \in 1..MaxCols |-> k]

\* The field initialisers and the constructor.
InitCommon ==
    /\ contentInit = FALSE
    /\ destroyed = FALSE
    /\ inputsBound = FALSE
    /\ stableTaken = FALSE
    /\ data = <<>>
    /\ pristine = TRUE
    /\ selected = {}
    /\ multiPageSelect = FALSE
    /\ selectable = TRUE
    /\ lastCheckboxIdx = 0
    /\ isShiftPressed = FALSE
    /\ completed = {}
    /\ mgrDestroyed = {}
    /\ mgrColumns = [filter |-> <<>>, sort |-> <<>>, visibility |-> <<>>]
    /\ columnsValue = <<>>
    /\ isAnyFilterDefined = FALSE
    /\ changeObserved = {}
    /\ debouncePending = FALSE
    /\ debounceLeft = 0
    /\ filtersSubscribed = FALSE
    /\ changesWatched = FALSE
    /\ watched = <<>>
    /\ visibleCount = <<>>
    /\ collapsed = <<>>
    /\ renderedCount = 0
    /\ resizeStrategy = DefaultResizeStrategy
    /\ isResizing = FALSE
    /\ visibleColumns = <<>>
    /\ renderedColumns = <<>>
    /\ snackbar = NoSnackbar
    /\ hookInput = {}
    /\ mgrHook = {}
    /\ hasSelSubscribers = 0
    /\ last = NoOp

\* The host template projects no header, and the selection manager honours
\* the hook it is handed.
InitContent ==
    /\ headerButtons = 0
    /\ mgrEnforcesHook = TRUE

\* No grid options are injected: the threshold starts at POSITIVE_INFINITY.
Init ==
    /\ InitCommon
    /\ InitContent
    /\ columns = DeclaredColumns
    /\ primary = [c \in ColIds |-> FALSE]
    /\ filterVisible = [c \in ColIds |-> FALSE]
    /\ collapseThreshold = PositiveInfinity

\* Any declared column list, any state of the columns' filter dropdowns, and
\* the threshold the injected grid options give (collapseFiltersCount, or
\* collapsibleFilters === true ? 0 : POSITIVE_INFINITY).
InitFilters ==
    /\ InitCommon
    /\ InitContent
    /\ columns \in ColumnLists
    /\ primary = [c \in ColIds |-> FALSE]
    /\ filterVisible \in [ColIds -> BOOLEAN]
    /\ collapseThreshold \in Thresholds

\* ------------------------------------------------- pipeline fragments
\* inputChanges$: the column-dependent managers are re-assigned from
\* this.columns.toArray().
Reconfigure(run, cols) ==
    IF run
    THEN /\ mgrColumns' = [filter |-> cols, sort |-> cols, visibility |-> cols]
         /\ columnsValue' =
                IF "columns$" \in completed THEN columnsValue ELSE cols
         /\ isAnyFilterDefined' =
                IF "isAnyFilterDefined$" \in completed
                THEN isAnyFilterDefined ELSE AnyFilterDefined(cols)
    ELSE UNCHANGED <<mgrColumns, columnsValue, isAnyFilterDefined>>

\* inputChanges$: the order of its taps.
ReconfigureOrder ==
    <<"filterManager.columns", "sortManager.columns",
      "visibilityManager.columns", "columns$", "isAnyFilterDefined$">>

ReconfigureEmits(run) ==
    IF run THEN Emit("columns$") \cup Emit("isAnyFilterDefined$") ELSE {}

\* this._configure$.next() reaches inputChanges$ through the merged subscription.
ConfigureDelivered == "_configure$" \notin completed /\ MergedAlive

\* A merged subscription without selection$.
SelectionTapDropped == {}

\* selectionManager.changed$ -> markForCheck.
SelectionTap == IF ManagerEmits("selection") /\ MergedAlive
                THEN {"selectionTap"} ELSE {}

\* A merged subscription without data$.
DataTapNever == FALSE

\* dataManager.data$ -> _lastCheckboxIdx = 0.
DataTapRuns == ManagerEmits("data") /\ MergedAlive

\* sortManager.sort$ -> sortChange.emit(ev).
SortTapRuns(userEvent) ==
    ManagerEmits("sort") /\ MergedAlive /\ SortTapEmits(userEvent)

\* The live announcer exists from ngAfterContentInit until its destroy().
AnnouncerAlive == contentInit /\ "liveAnnouncer" \notin mgrDestroyed

\* --------------------------------------------------------- operations
\* An input binding update: the setters run, then ngOnChanges(changes).
\* dataCh, selCh are <<>> (absent) or <<value>>.  ngOnChanges reads
\* this.multiPageSelect, which a binding update of that input has set before.
SetInputs(dataCh, selCh) ==
    /\ UNCHANGED <<renderedCount, resizeVars, sideVars>>
    /\ dataCh # <<>> \/ selCh # <<>>
    /\ inputsBound = contentInit
    /\ LET first == ~inputsBound
           hasData == dataCh # <<>>
           newSelectable == IF selCh # <<>> THEN selCh[1] ELSE selectable
           transition == SelectableTransition(selCh # <<>>, first,
                                              selectable, newSelectable)
           clears == ClearsOnDataChange(hasData, first, multiPageSelect)
           dataTap == hasData /\ DataTapRuns
           reconf == transition /\ ConfigureDelivered
       IN  /\ inputsBound' = TRUE
           /\ data' = IF hasData THEN SetData(data, dataCh[1]) ELSE data
           /\ pristine' = IF hasData THEN FALSE ELSE pristine
           /\ lastCheckboxIdx' = IF dataTap THEN 0 ELSE lastCheckboxIdx
           /\ selectable' = newSelectable
           /\ selected' = IF transition \/ clears THEN SmClear(selected)
                          ELSE selected
           /\ Reconfigure(reconf, columns)
           /\ last' = [NoOp EXCEPT
                  !.op = "ngOnChanges",
                  !.first = first,
                  !.dataCh = hasData,
                  !.rows = IF hasData THEN dataCh[1] ELSE <<>>,
                  !.anchor = lastCheckboxIdx,
                  !.selCh = IF selCh = <<>> THEN "none"
                            ELSE IF selectable = newSelectable THEN "same"
                            ELSE "diff",
                  !.hadSelection = (selected # {}),
                  !.hasValue = HasValueEmission(selected, selected'),
                  !.notices = HeaderNotices(
                      HasValueEmission(selected, selected'),
                      headerButtons, hasSelSubscribers),
                  !.handlers = (IF dataTap THEN {"dataTap"} ELSE {})
                        \cup (IF transition \/ clears THEN SelectionTap ELSE {})
                        \cup (IF reconf THEN {"inputChanges"} ELSE {}),
                  !.emitted = ReconfigureEmits(reconf),
                  !.calls = IF reconf THEN ReconfigureOrder ELSE <<>>,
                  !.reconfigs = IF reconf THEN 1 ELSE 0]
    /\ UNCHANGED <<contentInit, destroyed, stableTaken, completed,
                   mgrDestroyed, columns, isShiftPressed, multiPageSelect>>
    /\ UNCHANGED <<changeVars, filterVars>>

\* A binding update of disableSelectionByEntry alone: a plain field, and
\* ngOnChanges has no branch for it.  rows are the rows the new function
\* gives a reason for.
SetDisableSelectionByEntry(rows) ==
    /\ inputsBound = contentInit
    /\ rows # hookInput
    /\ hookInput' = rows
    /\ inputsBound' = TRUE
    /\ last' = [NoOp EXCEPT !.op = "setDisableSelectionByEntry",
                            !.first = ~inputsBound]
    /\ UNCHANGED <<contentInit, destroyed, stableTaken, completed,
                   mgrDestroyed, renderedCount>>
    /\ UNCHANGED <<mgrHook, mgrEnforcesHook, headerVars, roleVars, snackbar>>
    /\ UNCHANGED <<dataVars, selVars, inputVars, colVars, changeVars,
                   filterVars, resizeVars>>

\* A binding update of multiPageSelect alone: a plain field, and ngOnChanges
\* has no branch for it.
SetMultiPageSelect(value) ==
    /\ UNCHANGED <<renderedCount, resizeVars, sideVars>>
    /\ inputsBound = contentInit
    /\ value # multiPageSelect
    /\ multiPageSelect' = value
    /\ inputsBound' = TRUE
    /\ last' = [NoOp EXCEPT !.op = "setMultiPageSelect", !.first = ~inputsBound]
    /\ UNCHANGED <<contentInit, destroyed, stableTaken, completed,
                   mgrDestroyed, selectable>>
    /\ UNCHANGED <<dataVars, selVars, colVars, changeVars, filterVars>>

NgAfterContentInit ==
    /\ UNCHANGED <<renderedCount, resizeVars, roleVars, snackbar, headerVars>>
    /\ UNCHANGED <<hookInput, mgrEnforcesHook>>
    /\ mgrHook' = hookInput
    /\ ~contentInit
    /\ ~destroyed
    /\ contentInit' = TRUE
    /\ Reconfigure(ConfigureDelivered, columns)
    /\ last' = [NoOp EXCEPT
           !.op = "ngAfterContentInit",
           !.handlers = IF ConfigureDelivered THEN {"inputChanges"} ELSE {},
           !.emitted = ReconfigureEmits(ConfigureDelivered),
           !.calls = IF ConfigureDelivered THEN ReconfigureOrder ELSE <<>>,
           !.reconfigs = IF ConfigureDelivered THEN 1 ELSE 0]
    /\ UNCHANGED <<destroyed, inputsBound, stableTaken, completed,
                   mgrDestroyed, columns>>
    /\ UNCHANGED <<dataVars, selVars, inputVars, changeVars, filterVars>>

\* zone.onStable emits.  The subscription made by ngAfterContentInit takes the
\* first signal only: markForCheck and rendered.next(), which switches
\* _columnChanges$ to the columns' change$ and visibleFilterCount$ to
\* columns.changes.  It is not released by ngOnDestroy.
ZoneStable ==
    /\ UNCHANGED <<resizeVars, sideVars>>
    /\ LET runs == StableHandlerRuns(contentInit, stableTaken)
           emits == runs /\ "rendered" \notin completed
       IN  /\ stableTaken' = (stableTaken \/ runs)
           /\ renderedCount' = IF emits THEN Min(renderedCount + 1, 2)
                                ELSE renderedCount
           /\ changeObserved' =
                  IF emits /\ MergedAlive
                  THEN {columns[k] : k \in 1..Len(columns)} ELSE changeObserved
           /\ changesWatched' = IF runs THEN filtersSubscribed /\ emits
                                 ELSE changesWatched
           /\ last' = [NoOp EXCEPT
                  !.op = "onStable",
                  !.handlers = IF runs THEN {"stableTap"} ELSE {},
                  !.marks = IF runs THEN 1 ELSE 0,
                  !.emitted = IF runs THEN Emit("rendered") ELSE {}]
    /\ UNCHANGED <<contentInit, destroyed, inputsBound, completed, mgrDestroyed>>
    /\ UNCHANGED <<dataVars, selVars, inputVars, colVars, debouncePending,
                   debounceLeft>>
    /\ UNCHANGED <<filterVisible, collapseThreshold, filtersSubscribed,
                   watched, visibleCount, collapsed>>

CheckShift(shiftKey) ==
    /\ UNCHANGED <<resizeVars, sideVars>>
    /\ contentInit
    /\ ~destroyed
    /\ isShiftPressed' = shiftKey
    /\ last' = [NoOp EXCEPT
           !.op = "checkShift",
           !.anchorToggledOff = last.anchorToggledOff]
    /\ UNCHANGED <<selected, lastCheckboxIdx>>
    /\ UNCHANGED <<lifeVars, dataVars, inputVars, colVars, changeVars, filterVars>>

\* handleSelection(idx, entry) for a rendered row: entry = dataManager.get(idx).
HandleSelection(idx) ==
    /\ UNCHANGED <<resizeVars, sideVars>>
    /\ contentInit
    /\ ~destroyed
    /\ idx \in 0..(DmLength(data) - 1)
    /\ lastCheckboxIdx' = ClickAnchor(isShiftPressed, lastCheckboxIdx, idx)
    /\ LET entry == DmGet(data, idx)
           anchorSelected(sel) ==
               /\ lastCheckboxIdx < DmLength(data)
               /\ SmIsSelected(sel, DmGet(data, lastCheckboxIdx))
           mid == ShiftIntermediate(selected, entry)
       IN  IF ~isShiftPressed
           THEN /\ selected' = SmToggle(selected, entry)
                /\ last' = [NoOp EXCEPT
                       !.op = "click",
                       !.idx = idx,
                       !.anchor = lastCheckboxIdx,
                       !.wasSelected = SmIsSelected(selected, entry),
                       !.anchorToggledOff = SmIsSelected(selected, entry),
                       !.hasValue = HasValueEmission(selected, selected'),
                       !.notices = HeaderNotices(
                           HasValueEmission(selected, selected'),
                           headerButtons, hasSelSubscribers),
                       !.handlers = SelectionTap]
           ELSE /\ selected' = ShiftSelection(selected, data,
                                              lastCheckboxIdx, idx)
                /\ last' = [NoOp EXCEPT
                       !.op = "shiftClick",
                       !.idx = idx,
                       !.anchor = lastCheckboxIdx,
                       !.wasSelected = SmIsSelected(selected, entry),
                       !.afterToggleOff = last.anchorToggledOff,
                       !.afterShift = (last.op = "shiftClick"),
                       !.anchorWasSelected = anchorSelected(selected),
                       !.midRender = ShiftMidRender(selected, entry),
                       !.midEntrySelected = SmIsSelected(mid, entry),
                       !.midAnchorSelected = anchorSelected(mid),
                       !.hasValue = HasValueEmission(selected, mid)
                                    \o HasValueEmission(mid, selected'),
                       !.notices = HeaderNotices(
                           HasValueEmission(selected, mid)
                               \o HasValueEmission(mid, selected'),
                           headerButtons, hasSelSubscribers),
                       !.handlers = SelectionTap]
    /\ UNCHANGED isShiftPressed
    /\ UNCHANGED <<lifeVars, dataVars, inputVars, colVars, changeVars, filterVars>>

\* toggle(ev): the select-all checkbox.
Toggle(checked) ==
    /\ UNCHANGED <<resizeVars, sideVars>>
    /\ contentInit
    /\ ~destroyed
    /\ selected' = ToggleSelection(selected, data, checked)
    /\ lastCheckboxIdx' = IF checked THEN lastCheckboxIdx ELSE 0
    /\ last' = [NoOp EXCEPT
           !.op = IF checked THEN "selectAll" ELSE "deselectAll",
           !.hasValue = HasValueEmission(selected, selected'),
           !.notices = HeaderNotices(HasValueEmission(selected, selected'),
                                     headerButtons, hasSelSubscribers),
           !.handlers = IF DmLength(data) > 0 THEN SelectionTap ELSE {}]
    /\ UNCHANGED isShiftPressed
    /\ UNCHANGED <<lifeVars, dataVars, inputVars, colVars, changeVars, filterVars>>

\* The host selects a row through the public selectionManager.
HostSelect(row) ==
    /\ UNCHANGED <<resizeVars, sideVars>>
    /\ selected' = SmSelect(selected, {row})
    /\ last' = [NoOp EXCEPT
           !.op = "hostSelect",
           !.hasValue = HasValueEmission(selected, selected'),
           !.notices = HeaderNotices(HasValueEmission(selected, selected'),
                                     headerButtons, hasSelSubscribers),
           !.handlers = SelectionTap]
    /\ UNCHANGED <<lastCheckboxIdx, isShiftPressed>>
    /\ UNCHANGED <<lifeVars, dataVars, inputVars, colVars, changeVars, filterVars>>

\* The template (an async pipe) subscribes to hasSelection$.
SubscribeHasSelection ==
    /\ ~destroyed
    /\ hasSelSubscribers < MaxSubscribers
    /\ hasSelSubscribers' = hasSelSubscribers + 1
    /\ last' = [NoOp EXCEPT !.op = "subscribeHasSelection"]
    /\ UNCHANGED <<headerButtons, hookVars, roleVars, snackbar, resizeVars>>
    /\ UNCHANGED <<lifeVars, dataVars, selVars, inputVars, colVars, changeVars,
                   filterVars>>

\* A subscriber of hasSelection$ unsubscribes.
UnsubscribeHasSelection ==
    /\ hasSelSubscribers > 0
    /\ hasSelSubscribers' = hasSelSubscribers - 1
    /\ last' = [NoOp EXCEPT !.op = "unsubscribeHasSelection"]
    /\ UNCHANGED <<headerButtons, hookVars, roleVars, snackbar, resizeVars>>
    /\ UNCHANGED <<lifeVars, dataVars, selVars, inputVars, colVars, changeVars,
                   filterVars>>

\* The sort manager publishes a sort change on sort$.
SortEvent(userEvent) ==
    /\ UNCHANGED <<resizeVars, sideVars>>
    /\ last' = [NoOp EXCEPT
           !.op = "sort",
           !.userEvent = userEvent,
           !.handlers = IF SortTapRuns(userEvent) THEN {"sortTap"} ELSE {},
           !.emitted = IF SortTapRuns(userEvent) THEN Emit("sortChange") ELSE {},
           !.sortAnnounced =
               IF ManagerEmits("sort") /\ AnnouncerAlive
                  /\ AnnouncerSortFilter(userEvent)
               THEN 1 ELSE 0]
    /\ UNCHANGED <<lifeVars, dataVars, selVars, inputVars, colVars,
                   changeVars, filterVars>>

\* intl.changes: the labels service (not owned by the grid) announces a change.
IntlChange ==
    /\ UNCHANGED <<resizeVars, sideVars>>
    /\ contentInit
    /\ Reconfigure(MergedAlive, columns)
    /\ last' = [NoOp EXCEPT
           !.op = "intlChange",
           !.handlers = IF MergedAlive THEN {"inputChanges"} ELSE {},
           !.emitted = ReconfigureEmits(MergedAlive),
           !.calls = IF MergedAlive THEN ReconfigureOrder ELSE <<>>,
           !.reconfigs = IF MergedAlive THEN 1 ELSE 0]
    /\ UNCHANGED columns
    /\ UNCHANGED <<lifeVars, dataVars, selVars, inputVars, changeVars, filterVars>>

\* column.change$ of a declared column emits; _columnChanges$ holds the
\* notification for DebounceTime ms, in place of the one it held.
ColumnChange(c) ==
    /\ UNCHANGED <<resizeVars, sideVars>>
    /\ contentInit
    /\ \E k \in 1..Len(columns) : columns[k] = c
    /\ LET observed == c \in changeObserved /\ MergedAlive
       IN  /\ debouncePending' = (debouncePending \/ observed)
           /\ debounceLeft' = IF observed
                               THEN DebounceWindow(debouncePending, debounceLeft)
                               ELSE debounceLeft
           /\ last' = [NoOp EXCEPT
                  !.op = "columnChange",
                  !.observed = observed,
                  !.burst = IF ~observed THEN 0
                            ELSE IF debouncePending /\ last.burst > 0 THEN 2
                            ELSE 1]
    /\ UNCHANGED changeObserved
    /\ UNCHANGED <<lifeVars, dataVars, selVars, inputVars, colVars, filterVars>>

\* ms milliseconds pass, less than the debounce window has left.
TimePasses(ms) ==
    /\ debouncePending
    /\ ms < debounceLeft
    /\ debounceLeft' = debounceLeft - ms
    /\ last' = [NoOp EXCEPT !.op = "timePasses", !.burst = last.burst]
    /\ UNCHANGED <<changeObserved, debouncePending>>
    /\ UNCHANGED <<resizeVars, sideVars>>
    /\ UNCHANGED <<lifeVars, dataVars, selVars, inputVars, colVars, filterVars>>

\* The rest of the debounce window of _columnChanges$ passes: the tap stops
\* an active resize session, then inputChanges$ recomputes.
DebounceElapsed ==
    /\ UNCHANGED <<resizeStrategy, sideVars>>
    /\ debouncePending
    /\ debouncePending' = FALSE
    /\ debounceLeft' = 0
    /\ LET stops == MergedAlive /\ StopsResizing(isResizing)
       IN  /\ isResizing' = IF stops THEN FALSE ELSE isResizing
           /\ last' = [NoOp EXCEPT
                  !.op = "debounceElapsed",
                  !.idx = debounceLeft,
                  !.burst = last.burst,
                  !.wasResizing = isResizing,
                  !.calls = (IF stops THEN <<"stop">> ELSE <<>>)
                        \o (IF MergedAlive THEN ReconfigureOrder ELSE <<>>),
                  !.handlers = IF MergedAlive THEN {"inputChanges"} ELSE {},
                  !.emitted = ReconfigureEmits(MergedAlive),
                  !.reconfigs = IF MergedAlive THEN 1 ELSE 0]
    /\ Reconfigure(MergedAlive, columns)
    /\ UNCHANGED <<columns, changeObserved>>
    /\ UNCHANGED <<lifeVars, dataVars, selVars, inputVars, filterVars>>

\* The resampling of visibleFilterCount$: combineLatest over the visible$ of
\* the given columns (of no column: it completes without a value), then
\* areFilersCollapsed$ recomputed from the latest count and threshold.
CountAfterSample(cols, vis) ==
    IF Len(cols) = 0 THEN visibleCount ELSE <<VisibleFilterCount(cols, vis)>>

CollapsedAfter(count, threshold) ==
    IF count = <<>> THEN collapsed
    ELSE <<AreFiltersCollapsed(count[1], threshold)>>

\* columns.changes: the declared column list changes.
ColumnListChange(cols) ==
    /\ UNCHANGED <<resizeVars, sideVars>>
    /\ contentInit
    /\ cols # columns
    /\ columns' = cols
    /\ LET reconf == ~destroyed /\ ConfigureDelivered
       IN  /\ Reconfigure(reconf, cols)
           /\ last' = [NoOp EXCEPT
                  !.op = "columnListChange",
                  !.handlers = IF reconf THEN {"inputChanges"} ELSE {},
                  !.emitted = ReconfigureEmits(reconf),
                  !.calls = IF reconf THEN ReconfigureOrder ELSE <<>>,
                  !.reconfigs = IF reconf THEN 1 ELSE 0]
    /\ IF changesWatched
       THEN /\ watched' = cols
            /\ visibleCount' = CountAfterSample(cols, filterVisible)
            /\ collapsed' = CollapsedAfter(visibleCount', collapseThreshold)
       ELSE UNCHANGED <<watched, visibleCount, collapsed>>
    /\ UNCHANGED <<filterVisible, collapseThreshold, filtersSubscribed,
                   changesWatched>>
    /\ UNCHANGED <<lifeVars, dataVars, selVars, inputVars, changeVars>>

\* The template's async pipe subscribes to areFilersCollapsed$ in the first
\* change detection pass, before the zone turns stable: startWith samples
\* the columns declared at that moment.
TemplateSubscribes ==
    /\ UNCHANGED <<resizeVars, sideVars>>
    /\ contentInit
    /\ ~stableTaken
    /\ ~destroyed
    /\ ~filtersSubscribed
    /\ filtersSubscribed' = TRUE
    /\ watched' = columns
    /\ visibleCount' = CountAfterSample(columns, filterVisible)
    /\ collapsed' = CollapsedAfter(visibleCount', collapseThreshold)
    /\ last' = [NoOp EXCEPT !.op = "templateSubscribes"]
    /\ UNCHANGED <<filterVisible, collapseThreshold, changesWatched>>
    /\ UNCHANGED <<lifeVars, dataVars, selVars, inputVars, colVars, changeVars>>

\* The filter dropdown of declared column c shows or hides (its visible$ emits).
FilterVisibleChange(c) ==
    /\ UNCHANGED <<resizeVars, sideVars>>
    /\ HasFilter(c)
    /\ \E k \in 1..Len(columns) : columns[k] = c
    /\ filterVisible' = [filterVisible EXCEPT ![c] = ~@]
    /\ IF filtersSubscribed /\ \E k \in 1..Len(watched) : watched[k] = c
       THEN /\ visibleCount' = CountAfterSample(watched, filterVisible')
            /\ collapsed' = CollapsedAfter(visibleCount', collapseThreshold)
       ELSE UNCHANGED <<visibleCount, collapsed>>
    /\ last' = [NoOp EXCEPT !.op = "filterVisibleChange"]
    /\ UNCHANGED <<collapseThreshold, filtersSubscribed, changesWatched, watched>>
    /\ UNCHANGED <<lifeVars, dataVars, selVars, inputVars, colVars, changeVars>>

\* _collapseFiltersCount$.next(count) and what areFilersCollapsed$ makes of it.
ThresholdNext(count) ==
    /\ UNCHANGED <<resizeVars, sideVars>>
    /\ collapseThreshold' = count
    /\ collapsed' = IF filtersSubscribed THEN CollapsedAfter(visibleCount, count)
                    ELSE collapsed
    /\ UNCHANGED <<filterVisible, filtersSubscribed, changesWatched, watched,
                   visibleCount>>
    /\ UNCHANGED <<lifeVars, dataVars, selVars, inputVars, colVars, changeVars>>

\* set collapseFiltersCount(count): an unchanged count returns early.
SetCollapseFiltersCount(count) ==
    /\ count # collapseThreshold
    /\ ThresholdNext(count)
    /\ last' = [NoOp EXCEPT !.op = "setCollapseFiltersCount"]

\* set collapsibleFilters(collapse) (deprecated).
SetCollapsibleFilters(collapse) ==
    /\ ThresholdNext(CollapsibleToThreshold(collapse))
    /\ last' = [NoOp EXCEPT !.op = "setCollapsibleFilters"]

NgOnDestroy ==
    /\ UNCHANGED <<renderedCount, resizeStrategy, sideVars>>
    /\ LET callsAnnouncer == AnnouncerGuard(contentInit)
           fails == callsAnnouncer /\ ~contentInit
       IN  /\ destroyed' = TRUE
           /\ completed' = completed \cup EmittersCompleted
                  \cup (IF fails THEN {} ELSE SubjectsCompleted)
           /\ mgrDestroyed' = mgrDestroyed
                  \cup {OwnedManagers[k] : k \in 1..Len(OwnedManagers)}
                  \cup (IF callsAnnouncer /\ ~fails THEN {"liveAnnouncer"} ELSE {})
                  \cup (IF fails THEN {} ELSE {"performanceMonitor"})
           /\ changeObserved' = IF fails THEN changeObserved ELSE {}
           /\ debouncePending' = IF fails THEN debouncePending ELSE FALSE
           /\ debounceLeft' = IF fails THEN debounceLeft ELSE 0
           /\ isResizing' = FALSE
           /\ last' = [NoOp EXCEPT
                  !.op = "ngOnDestroy",
                  !.calls = TeardownSteps(contentInit),
                  !.repeat = destroyed,
                  !.failed = fails]
    /\ UNCHANGED <<contentInit, inputsBound, stableTaken>>
    /\ UNCHANGED <<dataVars, selVars, inputVars, colVars, filterVars>>

\* visibilityManager.columns$ publishes the list of visible columns and
\* renderedColumns$ maps it for the template.
VisibleEmits(cols) ==
    /\ contentInit
    /\ IF ManagerEmits("visibility")
       THEN /\ visibleColumns' = cols
            /\ renderedColumns' = RenderedColumns(cols, primary)
       ELSE UNCHANGED <<visibleColumns, renderedColumns>>
    /\ last' = [NoOp EXCEPT
           !.op = "visibleEmit",
           !.emitted = IF ManagerEmits("visibility")
                       THEN {"renderedColumns$"} ELSE {}]
    /\ UNCHANGED <<primary, snackbar, resizeVars, hookVars, headerVars>>
    /\ UNCHANGED <<lifeVars, dataVars, selVars, inputVars, colVars, changeVars,
                   filterVars>>

\* A binding update of a column's primary input; renderedColumns$ maps again
\* only when visible$ emits.
SetPrimary(c, value) ==
    /\ value # primary[c]
    /\ primary' = [primary EXCEPT ![c] = value]
    /\ last' = [NoOp EXCEPT !.op = "setPrimary"]
    /\ UNCHANGED <<visibleColumns, renderedColumns, snackbar, resizeVars,
                   hookVars, headerVars>>
    /\ UNCHANGED <<lifeVars, dataVars, selVars, inputVars, colVars, changeVars,
                   filterVars>>

\* service.info / success / warning / error (message, duration?) while no
\* snackbar is on display.
ShowSnackbar(requested) ==
    /\ ~snackbar.open
    /\ snackbar' = [open |-> TRUE, elapsed |-> 0,
                    duration |-> SnackbarDuration(requested),
                    previous |-> snackbar.duration]
    /\ last' = [NoOp EXCEPT !.op = "show", !.rows = requested]
    /\ UNCHANGED <<resizeVars, roleVars, hookVars, headerVars>>
    /\ UNCHANGED <<lifeVars, dataVars, selVars, inputVars, colVars, changeVars,
                   filterVars>>

\* ms milliseconds pass: the timers due within them fire.
Tick(ms) ==
    /\ snackbar' =
           IF ~snackbar.open THEN snackbar
           ELSE IF SnackbarDue(snackbar.elapsed + ms, snackbar.duration)
                THEN [snackbar EXCEPT !.open = FALSE, !.elapsed = 0]
                ELSE [snackbar EXCEPT !.elapsed = @ + ms]
    /\ last' = [NoOp EXCEPT !.op = "tick", !.idx = ms]
    /\ UNCHANGED <<resizeVars, roleVars, hookVars, headerVars>>
    /\ UNCHANGED <<lifeVars, dataVars, selVars, inputVars, colVars, changeVars,
                   filterVars>>

\* The user starts dragging a column edge: resizeManager.startResize.
ResizeStart ==
    /\ contentInit
    /\ ~destroyed
    /\ ManagerEmits("resize")
    /\ ~isResizing
    /\ isResizing' = TRUE
    /\ last' = [NoOp EXCEPT !.op = "resizeStart"]
    /\ UNCHANGED <<resizeStrategy, sideVars>>
    /\ UNCHANGED <<lifeVars, dataVars, selVars, inputVars, colVars, changeVars,
                   filterVars>>

\* The pointer is released: the session ends.
ResizeEnd ==
    /\ isResizing
    /\ isResizing' = FALSE
    /\ last' = [NoOp EXCEPT !.op = "resizeEnd"]
    /\ UNCHANGED <<resizeStrategy, sideVars>>
    /\ UNCHANGED <<lifeVars, dataVars, selVars, inputVars, colVars, changeVars,
                   filterVars>>

\* A binding update of resizeStrategy.  The constructor has built a manager,
\* so the setter always finds one.  The field is assigned and the held
\* manager destroyed before the factory is called: when the factory resolves
\* the value the replacement is a new, live manager, and when it fails the
\* setter is left at the factory call, with resizeManager still the destroyed
\* manager.
SetResizeStrategy(value) ==
    /\ LET steps == ResizeStrategySteps(value, resizeStrategy, TRUE)
           built == \E k \in 1..Len(steps) : steps[k] = "construct"
           resolved == FactoryResolves(value)
       IN  /\ resizeStrategy' = IF built THEN value ELSE resizeStrategy
           /\ mgrDestroyed' =
                  IF ~built THEN mgrDestroyed
                  ELSE IF resolved THEN mgrDestroyed \ {"resize"}
                  ELSE mgrDestroyed \cup {"resize"}
           /\ isResizing' = IF built THEN FALSE ELSE isResizing
           /\ inputsBound' = TRUE
           /\ last' = [NoOp EXCEPT
                  !.op = "setResizeStrategy",
                  !.first = ~inputsBound,
                  !.strategy = value,
                  !.failed = built /\ ~resolved,
                  !.resizeSteps = steps]
    /\ inputsBound = contentInit
    /\ UNCHANGED <<contentInit, destroyed, stableTaken, completed, renderedCount>>
    /\ UNCHANGED <<dataVars, selVars, inputVars, colVars, changeVars,
                   filterVars, sideVars>>

Option(S) == {<<>>} \cup {<<x>> : x \in S}

\* The grid's life from construction to teardown, with every event source.
\* What the rows and columns are does not matter to the lifecycle: data is
\* empty or the single row 1, the column list is empty or the declared one.
LifeSnapshots == {s \in PrefixSnapshots : Len(s) <= 1}
LifeRows == {r \in RowIds : r <= 1}
LifeColumnLists == {<<>>, DeclaredColumns}

Next ==
    \/ \E d \in Option(LifeSnapshots), s \in Option(BOOLEAN) : SetInputs(d, s)
    \/ NgAfterContentInit
    \/ ZoneStable
    \/ \E r \in LifeRows : HostSelect(r)
    \/ \E u \in BOOLEAN : SortEvent(u)
    \/ IntlChange
    \/ \E c \in ColIds : ColumnChange(c)
    \/ \E ms \in 1..(DebounceTime - 1) : TimePasses(ms)
    \/ DebounceElapsed
    \/ \E cols \in LifeColumnLists : ColumnListChange(cols)
    \/ NgOnDestroy

Spec == Init /\ [][Next]_vars

\* Selection on a live grid: every snapshot, plain and shift clicks, select-all.
NextSelection ==
    \/ \E d \in Option(Snapshots), s \in Option(BOOLEAN) : SetInputs(d, s)
    \/ \E b \in BOOLEAN : SetMultiPageSelect(b)
    \/ NgAfterContentInit
    \/ \E b \in BOOLEAN : CheckShift(b)
    \/ \E i \in 0..(MaxId - 1) : HandleSelection(i)
    \/ \E b \in BOOLEAN : Toggle(b)
    \/ \E r \in RowIds : HostSelect(r)

SpecSelection == Init /\ [][NextSelection]_vars

\* The resize manager over the grid's life.
NextResize ==
    \/ \E v \in ResizeStrategies : SetResizeStrategy(v)
    \/ \E d \in Option(LifeSnapshots), s \in Option(BOOLEAN) : SetInputs(d, s)
    \/ NgAfterContentInit
    \/ ZoneStable
    \/ \E c \in ColIds : ColumnChange(c)
    \/ \E ms \in 1..(DebounceTime - 1) : TimePasses(ms)
    \/ DebounceElapsed
    \/ ResizeStart
    \/ ResizeEnd
    \/ NgOnDestroy

SpecResize == Init /\ [][NextResize]_vars

\* The resize strategy bound to any value, resolved by the factory or not.
NextResizeAny ==
    \/ \E v \in AssignableStrategies : SetResizeStrategy(v)
    \/ \E d \in Option(LifeSnapshots), s \in Option(BOOLEAN) : SetInputs(d, s)
    \/ NgAfterContentInit
    \/ ResizeStart
    \/ ResizeEnd
    \/ NgOnDestroy

SpecResizeAny == Init /\ [][NextResizeAny]_vars

\* Selection with a disableSelectionByEntry hook.  What the selection manager
\* does with the hook it is handed is not the coordinator's: it enforces it
\* in select(), or it does not.
DisabledRowSets == {S \in SUBSET RowIds : Cardinality(S) <= 1}

InitHook ==
    /\ InitCommon
    /\ headerButtons = 0
    /\ mgrEnforcesHook \in BOOLEAN
    /\ columns = DeclaredColumns
    /\ primary = [c \in ColIds |-> FALSE]
    /\ filterVisible = [c \in ColIds |-> FALSE]
    /\ collapseThreshold = PositiveInfinity

NextHook ==
    \/ \E d \in Option(PrefixSnapshots) : SetInputs(d, <<>>)
    \/ \E rows \in DisabledRowSets : SetDisableSelectionByEntry(rows)
    \/ NgAfterContentInit
    \/ \E b \in BOOLEAN : CheckShift(b)
    \/ \E i \in 0..(MaxId - 1) : HandleSelection(i)
    \/ \E b \in BOOLEAN : Toggle(b)

SpecHook == InitHook /\ [][NextHook]_vars

\* The header-actions notice: a header with or without action buttons, any
\* number of subscribers of hasSelection$, and the selection operations.
InitHeader ==
    /\ InitCommon
    /\ headerButtons \in 0..MaxButtons
    /\ mgrEnforcesHook = TRUE
    /\ columns = DeclaredColumns
    /\ primary = [c \in ColIds |-> FALSE]
    /\ filterVisible = [c \in ColIds |-> FALSE]
    /\ collapseThreshold = PositiveInfinity

NextHeader ==
    \/ \E d \in Option(PrefixSnapshots) : SetInputs(d, <<>>)
    \/ NgAfterContentInit
    \/ SubscribeHasSelection
    \/ UnsubscribeHasSelection
    \/ \E b \in BOOLEAN : CheckShift(b)
    \/ \E i \in 0..(MaxId - 1) : HandleSelection(i)
    \/ \E b \in BOOLEAN : Toggle(b)
    \/ \E r \in LifeRows : HostSelect(r)

SpecHeader == InitHeader /\ [][NextHeader]_vars

\* The columns handed to the template: any primary flags, any visible list.
InitColumns ==
    /\ InitCommon
    /\ InitContent
    /\ columns = DeclaredColumns
    /\ primary \in [ColIds -> BOOLEAN]
    /\ filterVisible = [c \in ColIds |-> FALSE]
    /\ collapseThreshold = PositiveInfinity

NextColumns ==
    \/ NgAfterContentInit
    \/ \E cols \in ColumnLists : VisibleEmits(cols)
    \/ \E c \in ColIds, b \in BOOLEAN : SetPrimary(c, b)
    \/ NgOnDestroy

SpecColumns == InitColumns /\ [][NextColumns]_vars

\* The snackbar service and the clock.
NextSnackbar ==
    \/ \E r \in Option(SnackbarDurations) : ShowSnackbar(r)
    \/ \E ms \in TickSteps : Tick(ms)

SpecSnackbar == Init /\ [][NextSnackbar]_vars

\* The filter row: its visibility count and the collapse threshold.
NextFilters ==
    \/ NgAfterContentInit
    \/ TemplateSubscribes
    \/ ZoneStable
    \/ \E c \in ColIds : FilterVisibleChange(c)
    \/ \E cols \in ColumnLists : ColumnListChange(cols)
    \/ \E t \in Thresholds : SetCollapseFiltersCount(t)
    \/ \E b \in BOOLEAN : SetCollapsibleFilters(b)

SpecFilters == InitFilters /\ [][NextFilters]_vars

\* ------------------------------------------------------------- claims
nonLastVars == <<contentInit, destroyed, inputsBound, stableTaken, data,
                 pristine, selected, multiPageSelect, selectable,
                 lastCheckboxIdx, isShiftPressed, completed, mgrDestroyed,
                 columns, mgrColumns, columnsValue, isAnyFilterDefined,
                 changeObserved, debouncePending, debounceLeft, isResizing,
                 filterVisible,
                 collapseThreshold, filtersSubscribed, changesWatched, watched,
                 visibleCount, collapsed, renderedCount, resizeStrategy,
                 primary, visibleColumns, renderedColumns, snackbar,
                 hookInput, mgrHook, mgrEnforcesHook, headerButtons,
                 hasSelSubscribers>>

\* The rows of the snapshot at the 0-based indices lo..hi.
RowsAt(lo, hi) == {data[k] : k \in {j \in 1..Len(data) : lo + 1 <= j /\ j <= hi + 1}}

\* C1 (as stated): after ngOnChanges has handled a non-first data change the
\* selection is empty when multiPageSelect is false, and when it is true
\* every identity selected before is still selected; a first data change
\* clears nothing.
C1_DataChangeAsStated ==
    [][(last'.op = "ngOnChanges" /\ last'.dataCh) =>
          /\ (~last'.first /\ ~multiPageSelect') => selected' = {}
          /\ (~last'.first /\ multiPageSelect') => selected \subseteq selected'
          /\ last'.first => selected \subseteq selected']_vars

\* C1 (amended): as C1, but under multiPageSelect the selection survives a
\* non-first data change only if the same ngOnChanges call carries no
\* selectable transition (previous value # current value).
C1_DataChangeSelection ==
    [][(last'.op = "ngOnChanges" /\ last'.dataCh) =>
          /\ (~last'.first /\ ~multiPageSelect') => selected' = {}
          /\ (~last'.first /\ multiPageSelect' /\ last'.selCh # "diff")
                => selected' = selected
          /\ last'.first => selected' = selected]_vars

\* C1 witness: a non-first data change under multiPageSelect after which a
\* selected identity is absent from the new snapshot.
C1_Witness ==
    /\ last.op = "ngOnChanges" /\ last.dataCh /\ ~last.first
    /\ last.selCh # "diff" /\ multiPageSelect /\ last.hadSelection
    /\ \E r \in selected : r \notin DmRows(data)

\* C2: after a shift-click on index i with anchor a the selected rows of the
\* snapshot are exactly those at indices min(a, i)..max(a, i).
C2_ShiftClickRange ==
    last.op = "shiftClick" =>
        selected \cap DmRows(data) =
            RowsAt(Min(last.anchor, last.idx), Max(last.anchor, last.idx))

\* C2 witness: a backward shift-click on a row that was selected before,
\* which leaves a snapshot row outside the range.
C2_Witness ==
    /\ last.op = "shiftClick" /\ last.idx < last.anchor /\ last.wasSelected
    /\ DmRows(data) \ selected # {}

\* C3: the anchor row is toggled off by a plain click; the following
\* shift-click on a later row j leaves every row anchor..j selected.
C3_ReinclusionAfterToggleOff ==
    (last.op = "shiftClick" /\ last.afterToggleOff /\ last.idx > last.anchor) =>
        \A k \in last.anchor..last.idx : data[k + 1] \in selected

\* C3 witness: such a shift-click on a row that was itself selected before.
C3_Witness ==
    /\ last.op = "shiftClick" /\ last.afterToggleOff
    /\ last.idx > last.anchor /\ last.wasSelected

\* C4: a sort change with userEvent = false is never announced; one with
\* userEvent = true, emitted after ngAfterContentInit and before destroy, is
\* announced exactly once.
C4_SortAnnouncement ==
    last.op = "sort" =>
        /\ ~last.userEvent => last.sortAnnounced = 0
        /\ (last.userEvent /\ contentInit /\ ~destroyed) => last.sortAnnounced = 1

\* C4 witness: a user sort on an initialised, live grid was announced.
C4_Witness ==
    /\ last.op = "sort" /\ last.userEvent /\ contentInit /\ ~destroyed
    /\ last.sortAnnounced = 1

\* C5 (as stated): a sort change with userEvent = false produces no
\* sortChange emission.
C5_SortChangeUserOnly ==
    (last.op = "sort" /\ ~last.userEvent) => "sortChange" \notin last.emitted

\* C5 (amended): sortChange emits for every sort change the SortManager
\* emits before destroy, whatever its provenance (userEvent = false too),
\* and for none after destroy.
C5_SortChangeEveryEvent ==
    last.op = "sort" => (("sortChange" \in last.emitted) <=> ~destroyed)

\* C5 witness: a programmatic sort change was emitted on sortChange.
C5_Witness ==
    last.op = "sort" /\ ~last.userEvent /\ "sortChange" \in last.emitted

\* C6: after ngOnDestroy no data assignment, sort, selection, column, intl,
\* column-list or selectable change runs a coordinator handler or makes
\* sortChange, rendered, columns$ or isAnyFilterDefined$ emit.
LaterEvents ==
    {"ngOnChanges", "sort", "hostSelect", "columnChange", "debounceElapsed",
     "intlChange", "columnListChange"}

C6_DestroyTerminal ==
    (destroyed /\ last.op \in LaterEvents) =>
        /\ last.handlers = {}
        /\ last.emitted \cap EmittersCompleted = {}

\* C6 witness: a labels change reaches a destroyed grid.
C6_Witness == destroyed /\ last.op = "intlChange"

\* C7: a second ngOnDestroy changes nothing, makes no stream emit and does
\* not fail.
C7_DestroyIdempotent ==
    [][(destroyed /\ last'.op = "ngOnDestroy") =>
          /\ nonLastVars' = nonLastVars
          /\ last'.emitted = {} /\ last'.handlers = {}
          /\ ~last'.failed]_vars

\* C7 witness: ngOnDestroy ran on a grid already destroyed.
C7_Witness == last.op = "ngOnDestroy" /\ last.repeat

\* C8: after ngOnDestroy sortChange, refresh and rendered are all completed.
C8_OutputsCompleted == destroyed => PublicOutputs \subseteq completed

\* The visible filters of the columns declared right now.
CurrentVisibleFilters == VisibleFilterCount(columns, filterVisible)

\* C9: areFilersCollapsed$ reports true exactly when the number of currently
\* visible column filters is greater than collapseFiltersCount.
C9_CollapsedMatchesVisible ==
    filtersSubscribed =>
        ((collapsed = <<TRUE>>) <=>
            (~collapseThreshold.inf /\ CurrentVisibleFilters > collapseThreshold.n))

\* What does hold of areFilersCollapsed$: its value is the comparison of the
\* last count of visibleFilterCount$ with the threshold, and that count is
\* the number of visible filters among the columns sampled last.
CollapsedFollowsCountStream ==
    (filtersSubscribed /\ visibleCount # <<>>) =>
        /\ collapsed = <<(~collapseThreshold.inf
                          /\ visibleCount[1] > collapseThreshold.n)>>
        /\ watched # <<>> =>
              visibleCount[1] = Cardinality({c \in ColIds :
                  /\ HasFilter(c) /\ filterVisible[c]
                  /\ \E k \in 1..Len(watched) : watched[k] = c})

\* C10: a non-first selectable change with different previous and current
\* values empties the selection (under multiPageSelect too) and reconfigures
\* the column-dependent managers once; a first change or one with equal
\* values does neither.
C10_SelectableTransition ==
    [][last'.op = "ngOnChanges" =>
          /\ (last'.selCh = "diff" /\ ~last'.first) =>
                /\ selected' = {}
                /\ last'.reconfigs = 1
                /\ mgrColumns' = [filter |-> columns, sort |-> columns,
                                  visibility |-> columns]
          /\ (last'.selCh = "same" \/ (last'.selCh # "none" /\ last'.first)) =>
                /\ last'.reconfigs = 0
                /\ mgrColumns' = mgrColumns
                /\ ~(last'.dataCh /\ ~last'.first /\ ~multiPageSelect')
                      => selected' = selected]_vars

\* C10 witness: a selectable transition under multiPageSelect emptied a
\* selection that was not empty.
C10_Witness ==
    /\ last.op = "ngOnChanges" /\ last.selCh = "diff" /\ ~last.first
    /\ multiPageSelect /\ last.hadSelection /\ selected = {}
    /\ last.reconfigs = 1

\* The largest number of live resize managers bound to the grid while the
\* calls of steps are made one after the other, starting from live.
RECURSIVE PeakLive(_, _)
PeakLive(live, steps) ==
    IF steps = <<>> THEN live
    ELSE Max(live, PeakLive(IF Head(steps) = "destroy" THEN 0 ELSE live + 1,
                            Tail(steps)))

\* C11: assigning a resizeStrategy different from the current one destroys
\* the held resize manager and then constructs the replacement, so at most
\* one live manager exists at every moment; assigning the current strategy
\* destroys and constructs nothing.
C11_ResizeStrategySwap ==
    [][last'.op = "setResizeStrategy" =>
          /\ last'.strategy # resizeStrategy =>
                /\ last'.resizeSteps = <<"destroy", "construct">>
                /\ PeakLive(IF "resize" \in mgrDestroyed THEN 0 ELSE 1,
                            last'.resizeSteps) <= 1
                /\ resizeStrategy' = last'.strategy
                /\ "resize" \notin mgrDestroyed'
          /\ last'.strategy = resizeStrategy =>
                /\ last'.resizeSteps = <<>>
                /\ resizeStrategy' = resizeStrategy
                /\ mgrDestroyed' = mgrDestroyed]_vars

\* C11 witness: a live, initialised grid swapped its resize manager back to
\* the default strategy.
C11_Witness ==
    /\ last.op = "setResizeStrategy" /\ contentInit /\ ~destroyed
    /\ last.resizeSteps = <<"destroy", "construct">>
    /\ resizeStrategy = DefaultResizeStrategy

\* C12: rendered emits only at the first zone-stable signal after
\* ngAfterContentInit, together with one markForCheck; on a live grid that
\* signal does emit it; no signal before ngAfterContentInit and no later
\* signal emits it, so it emits at most once.
C12_RenderedOnce ==
    [][/\ "rendered" \in last'.emitted =>
             /\ last'.op = "onStable" /\ contentInit /\ ~stableTaken
             /\ renderedCount = 0 /\ last'.marks = 1
       /\ (last'.op = "onStable" /\ contentInit /\ ~stableTaken /\ ~destroyed) =>
             /\ "rendered" \in last'.emitted
             /\ last'.marks = 1 /\ renderedCount' = 1
       /\ (last'.op = "onStable" /\ (~contentInit \/ stableTaken)) =>
             /\ last'.emitted = {} /\ last'.marks = 0
             /\ renderedCount' = renderedCount
       /\ renderedCount' <= 1]_vars

\* C12 witness: a stable signal after the first one, on a live grid, found
\* rendered already emitted and emitted nothing.
C12_Witness ==
    /\ last.op = "onStable" /\ ~destroyed /\ renderedCount = 1
    /\ last.emitted = {} /\ last.marks = 0

PrimaryPositions == {k \in 1..Len(visibleColumns) : primary[visibleColumns[k]]}

C14_DataManagerSnapshot ==
    (last.op = "ngOnChanges" /\ last.dataCh) =>
        /\ DmLength(data) = Len(last.rows)
        /\ \A i \in 0..(DmLength(data) - 1) :
              /\ DmGet(data, i) = last.rows[i + 1]
              /\ DmIndexOf(data, DmGet(data, i)) = i
        /\ \A row \in RowIds :
              DmIndexOf(data, row) # -1 <=>
                  \E k \in 1..Len(last.rows) : last.rows[k] = row

\* C14 witness: a snapshot of two rows replaced by the empty list while one
\* of its rows is still selected.
C14_Witness ==
    /\ last.op = "ngOnChanges" /\ last.dataCh /\ ~last.first
    /\ last.rows = <<>> /\ DmLength(data) = 0
    /\ multiPageSelect /\ selected # {}

C16_PlainClickFrame ==
    [][last'.op = "click" =>
          /\ \A row \in RowIds :
                (row \in selected') <=>
                    IF row = data[last'.idx + 1] THEN row \notin selected
                    ELSE row \in selected
          /\ lastCheckboxIdx' = last'.idx]_vars

\* C16 witness: a plain click that deselected a row other than the first
\* while an identity of another page stayed selected.
C16_Witness ==
    /\ last.op = "click" /\ last.wasSelected /\ last.idx > 0
    /\ last.idx # last.anchor
    /\ selected \ DmRows(data) # {}

\* C17: the anchor is the index of the last plain click made since the last
\* data replacement or deselect-all, 0 if there was none: a plain click sets
\* it, a data replacement and a deselect-all reset it to 0, and nothing
\* else, a shift-click in particular, changes it.
C17_AnchorIsLastPlainClick ==
    [][lastCheckboxIdx' =
          IF last'.op = "click" THEN last'.idx
          ELSE IF (last'.op = "ngOnChanges" /\ last'.dataCh)
                  \/ last'.op = "deselectAll" THEN 0
          ELSE lastCheckboxIdx]_vars

\* C17 witness: the second of two consecutive shift-clicks ranged from the
\* same anchor, which is not row 0.
C17_Witness ==
    /\ last.op = "shiftClick" /\ last.afterShift
    /\ last.anchor > 0 /\ lastCheckboxIdx = last.anchor
    /\ last.idx # last.anchor

\* C18 (as stated): on a shift-click with the anchor row selected before,
\* a re-render happens in an intermediate state in which the anchor row is
\* not selected.
C18_AnchorRowDeselectedFirst ==
    (last.op = "shiftClick" /\ last.anchorWasSelected) =>
        last.midRender /\ ~last.midAnchorSelected

\* C18 (amended): on a shift-click the intermediate re-render happens
\* exactly when the clicked row was selected before; the clicked row is then
\* not selected in the intermediate state, which changes the membership of
\* no other row (the anchor row included), and is selected again at the end.
C18_ClickedRowDeselectedFirst ==
    last.op = "shiftClick" =>
        /\ last.midRender <=> last.wasSelected
        /\ last.midRender =>
              /\ ~last.midEntrySelected
              /\ data[last.idx + 1] \in selected
              /\ "selectionTap" \in last.handlers
        /\ last.idx # last.anchor =>
              (last.midAnchorSelected <=> last.anchorWasSelected)

\* C18 witness: a shift-click on a selected row away from a selected anchor
\* row: the re-render saw the anchor row still selected.
C18_Witness ==
    /\ last.op = "shiftClick" /\ last.wasSelected /\ last.midRender
    /\ last.idx # last.anchor /\ last.midAnchorSelected

\* C19: after the select-all control is used, with checked = true or with
\* checked = false, the anchor index is 0.
C19_SelectAllResetsAnchor ==
    last.op \in {"selectAll", "deselectAll"} => lastCheckboxIdx = 0

\* C20: after selectable has been turned on again (a non-first change to
\* true from false) the anchor index is 0.
C20_SelectableResetsAnchor ==
    (last.op = "ngOnChanges" /\ last.selCh = "diff" /\ ~last.first
        /\ selectable) => lastCheckboxIdx = 0

\* C21: on a live grid with a non-empty snapshot the anchor is an index of
\* the snapshot, and every index of a shift-click range was one of the
\* snapshot the click was handled on.
C21_AnchorInBounds ==
    /\ (~destroyed /\ DmLength(data) > 0) =>
          (0 <= lastCheckboxIdx /\ lastCheckboxIdx < DmLength(data))
    /\ last.op = "shiftClick" =>
          \A k \in RangeIndices(last.anchor, last.idx) :
              0 <= k /\ k < DmLength(data)

\* C21 witness: a data replacement left a non-empty snapshot too short for
\* the anchor held before it.
C21_Witness ==
    /\ last.op = "ngOnChanges" /\ last.dataCh /\ DmLength(data) > 0
    /\ last.anchor >= DmLength(data) /\ lastCheckboxIdx = 0

\* C22: ngOnDestroy destroys the data, resize, sort, selection, filter and
\* visibility managers in that order, then the live announcer exactly when
\* ngAfterContentInit has created one, then the performance monitor, and
\* releases the merged subscription after all of them; it never fails.
C22_TeardownOrder ==
    last.op = "ngOnDestroy" =>
        /\ last.calls =
              <<"data", "resize", "sort", "selection", "filter", "visibility">>
                  \o (IF contentInit THEN <<"liveAnnouncer">> ELSE <<>>)
                  \o <<"performanceMonitor", "_destroyed$">>
        /\ ~last.failed
        /\ ~MergedAlive
        /\ \A k \in 1..(Len(last.calls) - 1) : last.calls[k] \in mgrDestroyed

\* C22 witness: a teardown before ngAfterContentInit, without an announcer.
C22_Witness ==
    /\ last.op = "ngOnDestroy" /\ ~contentInit /\ ~last.repeat
    /\ Len(last.calls) = 8 /\ "liveAnnouncer" \notin mgrDestroyed

\* C23: a zone-stable signal that arrives after ngOnDestroy triggers neither
\* markForCheck nor a rendered emission.
C23_NoRenderAfterDestroy ==
    (last.op = "onStable" /\ destroyed) =>
        /\ last.marks = 0
        /\ "rendered" \notin last.emitted
        /\ last.handlers = {}

\* C24: an observed column notification starts a full window of 10 ms,
\* whatever was held, and recomputes nothing itself; nothing is recomputed
\* while the window runs; when it has run out the column-dependent managers
\* are recomputed once and nothing stays held.
C24_DebounceLastWins ==
    [][/\ (last'.op = "columnChange" /\ last'.observed) =>
             /\ debouncePending' /\ debounceLeft' = DebounceTime
             /\ last'.reconfigs = 0 /\ mgrColumns' = mgrColumns
       /\ last'.op = "timePasses" =>
             /\ debouncePending' /\ debounceLeft' \in 1..(debounceLeft - 1)
             /\ last'.reconfigs = 0 /\ mgrColumns' = mgrColumns
       /\ last'.op = "debounceElapsed" =>
             /\ debouncePending /\ last'.idx = debounceLeft
             /\ last'.reconfigs = 1
             /\ ~debouncePending' /\ debounceLeft' = 0
       /\ debouncePending' <=> debounceLeft' > 0]_vars

\* C24 witness: the window ran out after a burst in which a notification
\* replaced the one held, and one recomputation ran.
C24_Witness ==
    /\ last.op = "debounceElapsed" /\ last.burst = 2
    /\ last.reconfigs = 1 /\ last.idx = DebounceTime

\* C25: of two notifications of columns.changes that follow each other with
\* no time passing in between, at most one runs a recomputation.
C25_ListChangesCoalesced ==
    [][(last.op = "columnListChange" /\ last.reconfigs = 1
            /\ last'.op = "columnListChange") =>
          last'.reconfigs = 0]_vars

\* The taps of one recomputation, in order.
RecomputationCalls ==
    <<"filterManager.columns", "sortManager.columns",
      "visibilityManager.columns", "columns$", "isAnyFilterDefined$">>

\* C26: after every recomputation the filter, sort and visibility managers
\* and columns$ hold the declared column list, assigned in that order, and
\* isAnyFilterDefined$ is true exactly when a declared column has a filter.
C26_ReconfigureConsistent ==
    last.reconfigs = 1 =>
        /\ mgrColumns.filter = columns
        /\ mgrColumns.sort = columns
        /\ mgrColumns.visibility = columns
        /\ columnsValue = columns
        /\ isAnyFilterDefined <=> (\E k \in 1..Len(columns) : HasFilter(columns[k]))
        /\ Len(last.calls) >= 5
        /\ SubSeq(last.calls, Len(last.calls) - 4, Len(last.calls))
              = RecomputationCalls

\* C26 witness: a labels change recomputed for a non-empty column list with
\* a filter column.
C26_Witness ==
    /\ last.op = "intlChange" /\ last.reconfigs = 1
    /\ columns # <<>> /\ isAnyFilterDefined

\* C27: every change notification of a declared column on a live grid
\* leaves a recomputation scheduled.
C27_EveryColumnChangeObserved ==
    (last.op = "columnChange" /\ ~destroyed) => debouncePending

\* C28 (as stated): while a column notification produced earlier is not
\* handled yet, no handler runs for a sort, selection or data notification
\* produced after it.
C28_HandledInProductionOrder ==
    [][(debouncePending /\ last'.op \in {"sort", "hostSelect", "ngOnChanges"}) =>
          last'.handlers = {}]_vars

\* C28 (amended): on a live grid a sort, selection or data notification is
\* handled in the step that produces it, before anything produced later; a
\* column notification is handled only when its debounce window has run
\* out, after the notifications produced during the window.
C28_SynchronousInOrder ==
    [][/\ (last'.op = "sort" /\ ~destroyed) =>
             "sortTap" \in last'.handlers /\ "sortChange" \in last'.emitted
       /\ (last'.op = "hostSelect" /\ ~destroyed) =>
             "selectionTap" \in last'.handlers
       /\ (last'.op = "ngOnChanges" /\ last'.dataCh /\ ~destroyed) =>
             "dataTap" \in last'.handlers /\ lastCheckboxIdx' = 0
       /\ last'.op = "columnChange" =>
             last'.handlers = {} /\ mgrColumns' = mgrColumns
       /\ (debouncePending /\ last'.op \in {"sort", "hostSelect", "ngOnChanges"}) =>
             debouncePending' /\ debounceLeft' = debounceLeft
       /\ last'.op = "debounceElapsed" =>
             debouncePending /\ "inputChanges" \in last'.handlers]_vars

\* C28 witness: a sort change was handled while a column notification
\* produced before it was still held.
C28_Witness ==
    /\ last.op = "sort" /\ "sortTap" \in last.handlers
    /\ debouncePending /\ debounceLeft < DebounceTime

\* C29: the select-all control leaves every row of the snapshot selected
\* (checked) or not selected (unchecked) and the membership of every
\* identity outside the snapshot as it was.
C29_SelectAllFrame ==
    [][last'.op \in {"selectAll", "deselectAll"} =>
          \A row \in RowIds :
              (row \in selected') <=>
                  IF \E k \in 1..Len(data) : data[k] = row
                  THEN last'.op = "selectAll"
                  ELSE row \in selected]_vars

\* C29 witness: a deselect-all over a non-empty snapshot left an identity
\* of another page selected.
C29_Witness ==
    /\ last.op = "deselectAll" /\ DmLength(data) > 0
    /\ selected # {} /\ multiPageSelect

\* C30: when the debounce window of a column change runs out during a
\* resize session, stop() is called before the recomputation and no
\* session is active after it; without a session stop() is not called.
C30_ResizeStoppedFirst ==
    last.op = "debounceElapsed" =>
        /\ last.calls = (IF last.wasResizing THEN <<"stop">> ELSE <<>>)
                            \o RecomputationCalls
        /\ ~isResizing

\* C30 witness: the window ran out during a resize session.
C30_Witness ==
    /\ last.op = "debounceElapsed" /\ last.wasResizing
    /\ Head(last.calls) = "stop" /\ ~isResizing

\* C31: an assignment of a resizeStrategy the factory cannot resolve fails at
\* the assignment, and the failed assignment leaves the grid as it was: the
\* strategy value is the previous one, the resize manager the grid holds has
\* not been destroyed, and a resize session that was active still is.
C31_FailedAssignmentLeavesGrid ==
    [][(/\ last'.op = "setResizeStrategy"
        /\ ~FactoryResolves(last'.strategy))
       => /\ last'.failed
          /\ resizeStrategy' = resizeStrategy
          /\ mgrDestroyed' = mgrDestroyed
          /\ isResizing' = isResizing]_vars

\* C32: no row for which the disableSelectionByEntry hook returns a reason
\* becomes selected through select-all (toggle) or a shift-click range
\* (handleSelection).
C32_DisabledRowsNeverBulkSelected ==
    [][last'.op \in {"selectAll", "shiftClick"}
       => \A row \in hookInput' : row \in selected' => row \in selected]_vars

\* C33: while hasSelection$ has subscribers, however many, an operation that
\* turns the selection from empty to non-empty under a header with at least
\* one action button enqueues the header-actions notice exactly once; an
\* operation enqueues no notice when the header has no action button or when
\* hasValue$ emits nothing but false, and never more notices than hasValue$
\* emits true.
C33_HeaderNoticeOncePerSelection ==
    [][LET trues == {k \in 1..Len(last'.hasValue) : last'.hasValue[k]}
       IN  /\ (/\ hasSelSubscribers >= 1
               /\ headerButtons > 0
               /\ selected = {}
               /\ selected' # {}) => last'.notices = 1
           /\ headerButtons = 0 => last'.notices = 0
           /\ trues = {} => last'.notices = 0
           /\ last'.notices <= Cardinality(trues)]_vars

\* A click selects the first row of an empty selection while hasSelection$
\* has two subscribers and the header has an action button: one notice.
C33_Witness ==
    /\ last.op \in {"click", "selectAll", "hostSelect"}
    /\ hasSelSubscribers >= 2
    /\ headerButtons > 0
    /\ last.hasValue = <<TRUE>>
    /\ last.notices = 1

====
